---- MODULE Spec2Model ----
(***************************************************************************)
(* Model of table-viewer's TableState (src/src/state.rs): the grid, the    *)
(* column layout, the viewport offsets and the cursor, with one action per *)
(* public operation.  Strings are sequences of code points; row and column *)
(* indices are 0-based as in the source (sequences are indexed with +1).   *)
(* The data-row cursor is 1-based: cur_pos.row = 0 is the header line.     *)
(* loaded_rows is a history variable: the rows as read_csv returned them.  *)
(* mode and prev_key belong to TableViewer::run (src/src/viewer.rs), whose *)
(* loop body is the key handler of SpecViewer.  committed_pattern is a     *)
(* history variable of SpecRepeat: the last pattern committed with Enter.  *)
(***************************************************************************)
EXTENDS Integers, Sequences, FiniteSets, TLC

VARIABLES header, rows, columns, terminal_size, cur_pos, offsets,
          command_buffer, action, panicked, loaded_rows, mode, prev_key,
          committed_pattern

vars == <<header, rows, columns, terminal_size, cur_pos, offsets,
          command_buffer, action, panicked, loaded_rows, mode, prev_key,
          committed_pattern>>

(***************************************************************************)
(* Bounds of the explored inputs.                                          *)
(***************************************************************************)
MaxRows == 3
MaxCols == 3
MaxY == 4
MaxCursorRow == 6

\* terminal widths tried: one narrower than a padded column, one holding
\* two or three columns
TermWidths == {3, 7}

\* "a" and "ba"
CellValues == << <<97>>, <<98, 97>> >>

\* "#", "a", "bb", "c", "d" (tests/resources/small_table.csv, extended)
HeaderNames == << <<35>>, <<97>>, <<98, 98>>, <<99>>, <<100>> >>

\* search patterns: "a", "b", "1", "c"
Patterns == { <<97>>, <<98>>, <<49>>, <<99>> }

(***************************************************************************)
(* Helpers over sequences                                                  *)
(***************************************************************************)
min(a, b) == IF a <= b THEN a ELSE b

Max(a, b) == IF a >= b THEN a ELSE b

\* the integers a, a+1, ..., b-1 as a sequence (a Rust range a..b; empty
\* when a >= b)
Range(a, b) == [i \in 1..Max(b - a, 0) |-> a + i - 1]

\* str::contains: pattern occurs as a contiguous substring of cell
contains(cell, pattern) ==
    \E i \in 0..(Len(cell) - Len(pattern)) :
        \A j \in 1..Len(pattern) : cell[i + j] = pattern[j]

(***************************************************************************)
(* csv.rs: the loader prepends "#" to the header and the decimal row       *)
(* number i + 1 to record i.                                               *)
(***************************************************************************)
RECURSIVE format(_)
format(n) ==
    IF n < 10 THEN <<48 + n>> ELSE Append(format(n \div 10), 48 + (n % 10))

read_csv_header(ncols) == [c \in 1..ncols |-> HeaderNames[c]]

read_csv_rows(records) ==
    [i \in 1..Len(records) |-> <<format(i)>> \o records[i]]

(***************************************************************************)
(* state.rs: comparators                                                   *)
(***************************************************************************)
is_digits(a) == Len(a) > 0 /\ \A i \in 1..Len(a) : a[i] \in 48..57

RECURSIVE parse(_)
parse(a) ==
    IF Len(a) = 0 THEN 0
    ELSE 10 * parse(SubSeq(a, 1, Len(a) - 1)) + (a[Len(a)] - 48)

\* Ordering as -1 (Less), 0 (Equal), 1 (Greater)
cmp_num(x, y) == IF x < y THEN -1 ELSE IF x > y THEN 1 ELSE 0

RECURSIVE compare_str(_, _)
compare_str(a, b) ==
    IF Len(a) = 0 /\ Len(b) = 0 THEN 0
    ELSE IF Len(a) = 0 THEN -1
    ELSE IF Len(b) = 0 THEN 1
    ELSE IF a[1] # b[1] THEN cmp_num(a[1], b[1])
    ELSE compare_str(Tail(a), Tail(b))

compare_int(a, b) == cmp_num(parse(a), parse(b))

(***************************************************************************)
(* state.rs: column layout                                                 *)
(***************************************************************************)
padding == 2

\* value.chars().count()
chars_count(value) == Len(value)

RECURSIVE max_length(_, _, _)
\* the running maximum kept in widths[i] over the header and the rows
max_length(head, rs, i) ==
    IF Len(rs) = 0 THEN chars_count(head[i])
    ELSE LET rest == max_length(head, SubSeq(rs, 1, Len(rs) - 1), i)
             length == chars_count(rs[Len(rs)][i])
         IN  IF length > rest THEN length ELSE rest

\* compute_col_widths without the truncation to the window width
compute_col_widths_unclamped(head, rs, pad, window_width) ==
    [i \in 1..Len(head) |-> max_length(head, rs, i) + pad]

compute_col_widths(head, rs, pad, window_width) ==
    [i \in 1..Len(head) |->
        LET w == max_length(head, rs, i) + pad
        IN  IF w > window_width THEN w - (w - window_width) ELSE w]

RECURSIVE scan_index(_, _)
\* the accumulator of the scan before column i (1-based)
scan_index(widths, i) ==
    IF i = 1 THEN 0 ELSE scan_index(widths, i - 1) + widths[i - 1]

new_columns(head, rs, size) ==
    LET col_widths == compute_col_widths(head, rs, padding, size.x)
    IN  [i \in 1..Len(col_widths) |->
            [width |-> col_widths[i], index |-> scan_index(col_widths, i)]]

(***************************************************************************)
(* state.rs: helper methods.  s is the mutable part of a TableState:       *)
(* [rows, cur_pos, offsets].                                               *)
(***************************************************************************)
TS == [rows |-> rows, cur_pos |-> cur_pos, offsets |-> offsets]

x_offset(s) == columns[s.offsets.col + 1].index

displayable_data_rows == terminal_size.y - 1

\* final_row_visible with > for >=
final_row_visible_strict(s) ==
    s.offsets.row + displayable_data_rows > Len(s.rows)

final_row_visible(s) ==
    s.offsets.row + displayable_data_rows >= Len(s.rows)

first_row_visible(s) == s.offsets.row = 0

last_col_visible(s) ==
    LET last_col == columns[Len(columns)]
    IN  last_col.index + last_col.width <= x_offset(s) + terminal_size.x

\* is_bottom without the minimum with the number of rows
is_bottom_window_only(s) == s.cur_pos.row = displayable_data_rows

is_bottom(s) ==
    LET bottom_row == min(displayable_data_rows, Len(s.rows))
    IN  s.cur_pos.row = bottom_row

current_column(s) == s.offsets.col + s.cur_pos.col

current_row(s) == s.offsets.row + s.cur_pos.row

\* the value an operation returns together with the state it leaves
Ret(s, act) == [rows |-> s.rows, cur_pos |-> s.cur_pos, offsets |-> s.offsets,
                action |-> act, panic |-> FALSE]

\* an operation that aborts (index out of bounds, unwrap of an error)
Panic(s) == [rows |-> s.rows, cur_pos |-> s.cur_pos, offsets |-> s.offsets,
             action |-> "None", panic |-> TRUE]

SetRow(s, off, cur) ==
    [s EXCEPT !.offsets.row = off, !.cur_pos.row = cur]

SetCol(s, off, cur) ==
    [s EXCEPT !.offsets.col = off, !.cur_pos.col = cur]

(***************************************************************************)
(* state.rs: sort                                                          *)
(***************************************************************************)
comp(col, a, b) == IF col = 0 THEN compare_int(a, b) ELSE compare_str(a, b)

\* the closure with r1 and r2 exchanged
ordering_swapped(col, desc, r1, r2) ==
    IF desc THEN comp(col, r1[col + 1], r2[col + 1])
    ELSE comp(col, r2[col + 1], r1[col + 1])

\* the closure handed to sort_by: ascending compares (r1, r2), descending
\* compares (r2, r1)
ordering(col, desc, r1, r2) ==
    IF desc THEN comp(col, r2[col + 1], r1[col + 1])
    ELSE comp(col, r1[col + 1], r2[col + 1])

RECURSIVE insert_unstable(_, _, _, _)
\* r goes before the first element it is not greater than: equal rows are
\* exchanged
insert_unstable(sorted, r, col, desc) ==
    IF Len(sorted) = 0 THEN <<r>>
    ELSE IF ordering(col, desc, r, sorted[1]) <= 0 THEN <<r>> \o sorted
    ELSE <<sorted[1]>> \o insert_unstable(Tail(sorted), r, col, desc)

RECURSIVE insert_stable(_, _, _, _)
\* r goes before the first element it is strictly less than
insert_stable(sorted, r, col, desc) ==
    IF Len(sorted) = 0 THEN <<r>>
    ELSE IF ordering(col, desc, r, sorted[1]) < 0 THEN <<r>> \o sorted
    ELSE <<sorted[1]>> \o insert_stable(Tail(sorted), r, col, desc)

RECURSIVE sort_by(_, _, _)
\* slice::sort_by is a stable sort
sort_by(rs, col, desc) ==
    IF Len(rs) = 0 THEN <<>>
    ELSE insert_stable(sort_by(SubSeq(rs, 1, Len(rs) - 1), col, desc),
                       rs[Len(rs)], col, desc)

\* parse().unwrap() aborts on a cell that is no number; the comparator runs
\* only when there are two rows to compare
sort_panics(s, col) ==
    \/ (Len(s.rows) >= 2 /\ col >= Len(header))
    \/ (col = 0 /\ Len(s.rows) >= 2
        /\ \E i \in 1..Len(s.rows) : ~is_digits(s.rows[i][1]))

ascending(s, col) ==
    IF sort_panics(s, col) THEN Panic(s)
    ELSE Ret([s EXCEPT !.rows = sort_by(s.rows, col, FALSE)], "Rerender")

descending(s, col) ==
    IF sort_panics(s, col) THEN Panic(s)
    ELSE Ret([s EXCEPT !.rows = sort_by(s.rows, col, TRUE)], "Rerender")

(***************************************************************************)
(* state.rs: search                                                        *)
(***************************************************************************)
jump_to_row(s, row) ==
    IF row < displayable_data_rows
    THEN SetRow(s, 0, row + 1)
    ELSE IF Len(s.rows) - row < displayable_data_rows
    THEN LET off == Len(s.rows) - displayable_data_rows
         IN  SetRow(s, off, row - off + 1)
    ELSE SetRow(s, row, 1)

\* the scan without the chained second range
search_order_no_wrap(s) == Range(current_row(s), Len(s.rows))

\* (cur_row..self.rows.len()).chain(0..cur_row)
search_order(s) ==
    LET cur_row == current_row(s)
    IN  Range(cur_row, Len(s.rows)) \o Range(0, cur_row)

\* positions of the scan at which the loop stops: the cell matches, or the
\* index self.rows[row][col] is out of bounds
search_stops(s, pattern) ==
    LET col == current_column(s)
        order == search_order(s)
    IN  {k \in 1..Len(order) :
            \/ order[k] >= Len(s.rows)
            \/ col >= Len(s.rows[order[k] + 1])
            \/ contains(s.rows[order[k] + 1][col + 1], pattern)}

search(s, pattern) ==
    LET col == current_column(s)
        order == search_order(s)
        stops == search_stops(s, pattern)
    IN  IF stops = {} THEN Ret(s, "Rerender")
        ELSE LET k == CHOOSE k \in stops : \A j \in stops : k <= j
                 row == order[k]
             IN  IF row >= Len(s.rows) \/ col >= Len(s.rows[row + 1])
                 THEN Panic(s)
                 ELSE Ret(jump_to_row(s, row), "Rerender")

(***************************************************************************)
(* state.rs: vertical navigation                                           *)
(***************************************************************************)
\* move_down without the final_row_visible test
move_down_no_visible_check(s) ==
    IF is_bottom(s)
    THEN Ret(SetRow(s, s.offsets.row + 1, s.cur_pos.row), "Rerender")
    ELSE Ret(SetRow(s, s.offsets.row, s.cur_pos.row + 1), "MoveCursor")

move_down(s) ==
    IF is_bottom(s)
    THEN IF ~final_row_visible(s)
         THEN Ret(SetRow(s, s.offsets.row + 1, s.cur_pos.row), "Rerender")
         ELSE Ret(s, "None")
    ELSE Ret(SetRow(s, s.offsets.row, s.cur_pos.row + 1), "MoveCursor")

move_page_down(s) ==
    IF s.cur_pos.row = 0
    THEN Ret(SetRow(s, s.offsets.row, 1), "MoveCursor")
    ELSE IF ~final_row_visible(s)
    THEN Ret(SetRow(s, min(Len(s.rows) - displayable_data_rows,
                           s.offsets.row + (displayable_data_rows - 1)),
                    s.cur_pos.row), "Rerender")
    ELSE IF s.cur_pos.row # displayable_data_rows
    THEN Ret(SetRow(s, s.offsets.row, displayable_data_rows), "MoveCursor")
    ELSE Ret(s, "None")

\* move_up that leaves row 1 for the header without looking at the offset
move_up_no_shift(s) ==
    IF s.cur_pos.row # 0
    THEN Ret(SetRow(s, s.offsets.row, s.cur_pos.row - 1), "MoveCursor")
    ELSE Ret(s, "None")

move_up(s) ==
    IF s.cur_pos.row = 1
    THEN IF ~first_row_visible(s)
         THEN Ret(SetRow(s, s.offsets.row - 1, s.cur_pos.row), "Rerender")
         ELSE Ret(SetRow(s, s.offsets.row, s.cur_pos.row - 1), "MoveCursor")
    ELSE IF s.cur_pos.row # 0
    THEN Ret(SetRow(s, s.offsets.row, s.cur_pos.row - 1), "MoveCursor")
    ELSE Ret(s, "None")

\* usize is 64 bits wide; TLC's integers are 32 bits wide, so the wrap-around
\* of wrapping_sub is taken modulo 2^30, which is larger than every offset
\* of the model and leaves the comparison new_row < offsets.row as it is
UsizeModulus == 2^30

wrapping_sub(a, b) == (a - b) % UsizeModulus

move_page_up(s) ==
    IF ~first_row_visible(s)
    THEN LET new_row == wrapping_sub(s.offsets.row, displayable_data_rows - 1)
         IN  Ret(SetRow(s, IF new_row < s.offsets.row THEN new_row ELSE 0,
                        s.cur_pos.row), "Rerender")
    ELSE IF s.cur_pos.row # 0
    THEN Ret(SetRow(s, s.offsets.row, 0), "MoveCursor")
    ELSE Ret(s, "None")

move_home(s) == Ret(SetRow(s, 0, 0), "Rerender")

\* move_end that puts the cursor on the bottom line of the window also when
\* the grid is shorter than the window
move_end_window_bottom(s) ==
    IF Len(s.rows) <= displayable_data_rows
    THEN Ret(SetRow(s, s.offsets.row, terminal_size.y - 1), "Rerender")
    ELSE Ret(SetRow(s, Len(s.rows) - displayable_data_rows,
                    terminal_size.y - 1), "Rerender")

move_end(s) ==
    IF Len(s.rows) <= displayable_data_rows
    THEN Ret(SetRow(s, s.offsets.row, Len(s.rows)), "Rerender")
    ELSE Ret(SetRow(s, Len(s.rows) - displayable_data_rows,
                    terminal_size.y - 1), "Rerender")

(***************************************************************************)
(* state.rs: horizontal navigation                                         *)
(***************************************************************************)
\* the fit test with < for <=
fitting_strict(col_end, candidates) ==
    {i \in candidates : col_end - columns[i + 1].index < terminal_size.x}

\* the column offsets i of a scan at which the column ending at col_end
\* fits into the window
fitting(col_end, candidates) ==
    {i \in candidates : col_end - columns[i + 1].index <= terminal_size.x}

\* move_right that makes the new column the first visible one when it does
\* not fit
move_right_jump(s) ==
    IF current_column(s) = Len(columns) - 1 THEN Ret(s, "None")
    ELSE LET cur_column == current_column(s) + 1
             new_col == columns[cur_column + 1]
             new_col_end == new_col.index + new_col.width
         IN  IF new_col_end - columns[s.offsets.col + 1].index
                    <= terminal_size.x
             THEN Ret(SetCol(s, s.offsets.col, s.cur_pos.col + 1),
                      "MoveCursor")
             ELSE Ret(SetCol(s, cur_column, 0), "Rerender")

move_right(s) ==
    IF current_column(s) = Len(columns) - 1 THEN Ret(s, "None")
    ELSE LET cur_column == current_column(s) + 1
             new_col == columns[cur_column + 1]
             new_col_end == new_col.index + new_col.width
             fits == fitting(new_col_end, s.offsets.col..cur_column)
         IN  IF new_col_end - columns[s.offsets.col + 1].index
                    <= terminal_size.x
             THEN Ret(SetCol(s, s.offsets.col, s.cur_pos.col + 1),
                      "MoveCursor")
             ELSE IF fits = {}
             THEN Ret(SetCol(s, s.offsets.col, s.cur_pos.col + 1),
                      "Rerender")
             ELSE LET i == CHOOSE i \in fits : \A j \in fits : i <= j
                  IN  Ret(SetCol(s, i, s.cur_pos.col + 1
                                         - (i - s.offsets.col)), "Rerender")

move_left(s) ==
    IF s.cur_pos.col = 0
    THEN IF s.offsets.col # 0
         THEN Ret(SetCol(s, s.offsets.col - 1, s.cur_pos.col), "Rerender")
         ELSE Ret(s, "None")
    ELSE Ret(SetCol(s, s.offsets.col, s.cur_pos.col - 1), "MoveCursor")

\* move_start_of_line that always asks for the cursor to be moved only
move_start_of_line_cursor_only(s) == Ret(SetCol(s, 0, 0), "MoveCursor")

move_start_of_line(s) ==
    IF s.offsets.col = 0
    THEN Ret(SetCol(s, s.offsets.col, 0), "MoveCursor")
    ELSE Ret(SetCol(s, 0, 0), "Rerender")

\* move_end_of_line with the cursor column not made relative to the offset
move_end_of_line_abs_cursor(s) ==
    LET last_col == columns[Len(columns)]
        complete_width == last_col.index + last_col.width
        fits == fitting(complete_width, 0..(Len(columns) - 1))
    IN  IF fits = {} THEN Ret(s, "Rerender")
        ELSE LET i == CHOOSE i \in fits : \A j \in fits : i <= j
             IN  Ret(SetCol(s, i, Len(columns) - 1), "Rerender")

\* move_end_of_line with the cursor column computed from the offset before
\* the move
move_end_of_line_stale_offset(s) ==
    LET last_col == columns[Len(columns)]
        complete_width == last_col.index + last_col.width
        fits == fitting(complete_width, 0..(Len(columns) - 1))
    IN  IF fits = {} THEN Ret(s, "Rerender")
        ELSE LET i == CHOOSE i \in fits : \A j \in fits : i <= j
             IN  Ret(SetCol(s, i, Len(columns) - s.offsets.col - 1),
                     "Rerender")

move_end_of_line(s) ==
    LET last_col == columns[Len(columns)]
        complete_width == last_col.index + last_col.width
        fits == fitting(complete_width, 0..(Len(columns) - 1))
    IN  IF fits = {} THEN Ret(s, "Rerender")
        ELSE LET i == CHOOSE i \in fits : \A j \in fits : i <= j
             IN  Ret(SetCol(s, i, Len(columns) - i - 1), "Rerender")

(***************************************************************************)
(* The state machine: TableState::new, then any operation in any order     *)
(***************************************************************************)
\* a termion Key: Char(c) and Ctrl(c) carry a character, the others do not
Key(kind) == [kind |-> kind, c |-> 0]

Char(c) == [kind |-> "Char", c |-> c]

Ctrl(c) == [kind |-> "Ctrl", c |-> c]

\* record k of a csv file with ncols - 1 data columns
record(k, ncols) ==
    [c \in 1..(ncols - 1) |-> CellValues[((k + c) % Len(CellValues)) + 1]]

new(head, rs, size) ==
    /\ header = head
    /\ rows = rs
    /\ columns = new_columns(head, rs, size)
    /\ terminal_size = size
    /\ cur_pos = [col |-> 0, row |-> 0]
    /\ offsets = [col |-> 0, row |-> 0]
    /\ command_buffer = <<>>
    /\ action = "Rerender"
    /\ panicked = FALSE
    /\ loaded_rows = rs
    /\ mode = "Normal"
    /\ prev_key = Key("Home")
    /\ committed_pattern = <<>>

Init ==
    \E ncols \in 1..MaxCols, n \in 0..MaxRows, x \in TermWidths, y \in 2..MaxY :
        \E recs \in [1..n -> 1..Len(CellValues)] :
            new(read_csv_header(ncols),
                read_csv_rows([i \in 1..n |-> record(recs[i], ncols)]),
                [x |-> x, y |-> y])

\* the operation returned r: its state and RenderingAction are taken over,
\* or the process aborted
Apply(r) ==
    /\ ~panicked
    /\ IF r.panic
       THEN /\ panicked' = TRUE
            /\ UNCHANGED <<rows, cur_pos, offsets, action>>
       ELSE /\ rows' = r.rows
            /\ cur_pos' = r.cur_pos
            /\ offsets' = r.offsets
            /\ action' = r.action
            /\ UNCHANGED panicked
    /\ UNCHANGED <<header, columns, terminal_size, command_buffer, loaded_rows,
                   mode, prev_key, committed_pattern>>

Ascending == \E col \in 0..(Len(header) - 1) : Apply(ascending(TS, col))

Descending == \E col \in 0..(Len(header) - 1) : Apply(descending(TS, col))

Search == \E pattern \in Patterns : Apply(search(TS, pattern))

\* cur_pos.row is capped: past the bottom row move_down never stops
MoveDown == cur_pos.row < MaxCursorRow /\ Apply(move_down(TS))

MovePageDown == Apply(move_page_down(TS))

MoveUp == Apply(move_up(TS))

MovePageUp == Apply(move_page_up(TS))

MoveHome == Apply(move_home(TS))

MoveEnd == Apply(move_end(TS))

MoveRight == Apply(move_right(TS))

MoveLeft == Apply(move_left(TS))

MoveStartOfLine == Apply(move_start_of_line(TS))

MoveEndOfLine == Apply(move_end_of_line(TS))

Next ==
    \/ Ascending
    \/ Descending
    \/ Search
    \/ MoveDown
    \/ MovePageDown
    \/ MoveUp
    \/ MovePageUp
    \/ MoveHome
    \/ MoveEnd
    \/ MoveRight
    \/ MoveLeft
    \/ MoveStartOfLine
    \/ MoveEndOfLine

Spec == Init /\ [][Next]_vars

(***************************************************************************)
(* The fixture of tests/renderer.rs: small_table.csv with header a, bb, c  *)
(* and the records ia, ibb, ic for i = 1..5, in a terminal 9 wide, 4 tall. *)
(***************************************************************************)
small_table_records ==
    [i \in 1..5 |-> <<format(i) \o <<97>>, format(i) \o <<98, 98>>,
                      format(i) \o <<99>>>>]

small_table_state_fixture ==
    new(read_csv_header(4), read_csv_rows(small_table_records),
        [x |-> 9, y |-> 4])

SpecFixture == small_table_state_fixture /\ [][Next]_vars

(***************************************************************************)
(* viewer.rs: the key handler of TableViewer::run.  v is the mutable part  *)
(* of a TableViewer: the TableState fields, command_buffer, mode and       *)
(* prev_key.                                                               *)
(***************************************************************************)
VS == [rows |-> rows, cur_pos |-> cur_pos, offsets |-> offsets,
       command_buffer |-> command_buffer, mode |-> mode,
       prev_key |-> prev_key]

StateOf(v) == [rows |-> v.rows, cur_pos |-> v.cur_pos, offsets |-> v.offsets]

\* the viewer after a TableState operation returned r
Handled(v, r) ==
    [rows |-> r.rows, cur_pos |-> r.cur_pos, offsets |-> r.offsets,
     command_buffer |-> v.command_buffer, mode |-> v.mode,
     action |-> r.action, panic |-> r.panic]

\* the viewer after an arm that only yields a RenderingAction
Signal(v, act) == Handled(v, Ret(StateOf(v), act))

\* state.rs: TableState::execute_command
execute_command(v) ==
    IF Len(v.command_buffer) > 1 /\ v.command_buffer[1] = 47
    THEN search(StateOf(v), SubSeq(v.command_buffer, 2, Len(v.command_buffer)))
    ELSE Ret(StateOf(v), "None")

\* '/' pushed without clearing the buffer first
enter_command_mode_no_clear(v) ==
    [Signal(v, "Command") EXCEPT !.mode = "Command",
                                 !.command_buffer = Append(v.command_buffer, 47)]

\* Key::Char('/') in Normal mode
enter_command_mode(v) ==
    [Signal(v, "Command") EXCEPT !.mode = "Command", !.command_buffer = <<47>>]

\* Enter that also clears the buffer after the commit
execute_command_key_clear(v) ==
    LET w == [v EXCEPT !.mode = "Normal"]
    IN  IF Len(v.command_buffer) <= 1
        THEN [Signal(w, "Rerender") EXCEPT !.command_buffer = <<>>]
        ELSE [Handled(w, execute_command(w)) EXCEPT !.command_buffer = <<>>]

\* Key::Char('\n') in Command mode
execute_command_key(v) ==
    LET w == [v EXCEPT !.mode = "Normal"]
    IN  IF Len(v.command_buffer) <= 1 THEN Signal(w, "Rerender")
        ELSE Handled(w, execute_command(w))

\* Key::Char(c) in Command mode
enter_command_character(v, c) ==
    [Signal(v, "Command") EXCEPT !.command_buffer = Append(v.command_buffer, c)]

\* Key::Backspace in Command mode: Vec::pop leaves an empty buffer empty
delete_command_character(v) ==
    LET popped == IF Len(v.command_buffer) = 0 THEN <<>>
                  ELSE SubSeq(v.command_buffer, 1, Len(v.command_buffer) - 1)
    IN  IF Len(popped) = 0
        THEN [Signal(v, "Rerender") EXCEPT !.command_buffer = popped,
                                            !.mode = "Normal"]
        ELSE [Signal(v, "Command") EXCEPT !.command_buffer = popped]

\* Key::Esc in Command mode
switch_to_normal_mode(v) ==
    [Signal(v, "Rerender") EXCEPT !.mode = "Normal", !.command_buffer = <<>>]

\* the quit keys of Normal mode; Command mode has the same without Char('q')
is_quit_key(key) ==
    key \in {Char(113), Ctrl(113), Ctrl(120), Ctrl(99)}

normal_mode(v, key) ==
    LET ts == StateOf(v)
    IN  IF is_quit_key(key) THEN Signal(v, "Reset")
        ELSE IF key = Char(97)
        THEN Handled(v, ascending(ts, current_column(ts)))
        ELSE IF key = Char(100)
        THEN Handled(v, descending(ts, current_column(ts)))
        ELSE IF key = Char(111) THEN Handled(v, ascending(ts, 0))
        ELSE IF key \in {Key("Down"), Char(106)}
        THEN Handled(v, move_down(ts))
        ELSE IF key \in {Key("Up"), Char(107)} THEN Handled(v, move_up(ts))
        ELSE IF key = Key("PageDown") THEN Handled(v, move_page_down(ts))
        ELSE IF key = Key("PageUp") THEN Handled(v, move_page_up(ts))
        ELSE IF key = Key("Home") THEN Handled(v, move_home(ts))
        ELSE IF key = Char(103) /\ v.prev_key = Char(103)
        THEN Handled(v, move_home(ts))
        ELSE IF key \in {Key("End"), Char(71)} THEN Handled(v, move_end(ts))
        ELSE IF key \in {Key("Right"), Char(108)}
        THEN Handled(v, move_right(ts))
        ELSE IF key \in {Key("Left"), Char(104)}
        THEN Handled(v, move_left(ts))
        ELSE IF key = Char(48) THEN Handled(v, move_start_of_line(ts))
        ELSE IF key = Char(36) THEN Handled(v, move_end_of_line(ts))
        ELSE IF key = Char(47) THEN enter_command_mode(v)
        ELSE IF key = Char(32) THEN Handled(v, execute_command(v))
        ELSE Signal(v, "None")

\* Command mode with the quit keys of Normal mode, Char('q') included
command_mode_q_quits(v, key) ==
    IF is_quit_key(key) THEN Signal(v, "Reset")
    ELSE IF key = Char(10) THEN execute_command_key(v)
    ELSE IF key.kind = "Char" THEN enter_command_character(v, key.c)
    ELSE IF key = Key("Backspace") THEN delete_command_character(v)
    ELSE IF key = Key("Esc") THEN switch_to_normal_mode(v)
    ELSE Signal(v, "None")

command_mode(v, key) ==
    IF key \in {Ctrl(113), Ctrl(120), Ctrl(99)} THEN Signal(v, "Reset")
    ELSE IF key = Char(10) THEN execute_command_key(v)
    ELSE IF key.kind = "Char" THEN enter_command_character(v, key.c)
    ELSE IF key = Key("Backspace") THEN delete_command_character(v)
    ELSE IF key = Key("Esc") THEN switch_to_normal_mode(v)
    ELSE Signal(v, "None")

\* the match on self.mode and key of the loop body
key_event(v, key) ==
    IF v.mode = "Normal" THEN normal_mode(v, key) ELSE command_mode(v, key)

\* renderer.rs: TableRenderer::render, by the method that makes the output
render(act) ==
    CASE act = "Rerender" -> "full_render"
      [] act = "MoveCursor" -> "go_to_cur_pos"
      [] act = "Command" -> "render_command"
      [] act = "Reset" -> "reset_window"
      [] OTHER -> "none"

(***************************************************************************)
(* The viewer as a state machine: one key event at a time until Reset      *)
(***************************************************************************)
MaxBuffer == 2

\* the characters typed: q a d o g 0 $ / space newline b (the arms of
\* j k l h G are reached by the arrow keys and End)
TypedChars == {113, 97, 100, 111, 103, 48, 36, 47, 32, 10, 98}

\* prev_key is only ever compared with Char('g'): every other key is
\* remembered as the Key::Home that run starts with
remembered(key) == IF key = Char(103) THEN key ELSE Key("Home")

Keys ==
    {Char(c) : c \in TypedChars}
        \cup {Ctrl(113), Ctrl(120), Ctrl(99), Ctrl(97)}
        \cup {Key(k) : k \in {"Down", "Up", "PageDown", "PageUp", "Home",
                              "End", "Right", "Left", "Backspace", "Esc",
                              "Insert"}}

\* a file without records and a file with the records "ba" and "a", in a
\* terminal with one displayable data row
InitViewer ==
    \E recs \in {<<>>, <<1, 2>>}, x \in TermWidths :
        new(read_csv_header(2),
            read_csv_rows([i \in 1..Len(recs) |-> record(recs[i], 2)]),
            [x |-> x, y |-> 2])

\* one pass of the loop body for the key read; the loop ends with Reset
KeyEvent(key) ==
    LET r == key_event(VS, key)
    IN  /\ ~panicked
        /\ action # "Reset"
        /\ IF r.panic
           THEN /\ panicked' = TRUE
                /\ UNCHANGED <<rows, cur_pos, offsets, command_buffer, mode,
                               action, prev_key>>
           ELSE /\ rows' = r.rows
                /\ cur_pos' = r.cur_pos
                /\ offsets' = r.offsets
                /\ command_buffer' = r.command_buffer
                /\ mode' = r.mode
                /\ action' = r.action
                /\ prev_key' = IF r.action = "Reset" THEN prev_key
                               ELSE remembered(key)
                /\ UNCHANGED panicked
        /\ UNCHANGED <<header, columns, terminal_size, loaded_rows>>

\* cur_pos.row and the command buffer are capped
NormalModeKey ==
    /\ mode = "Normal"
    /\ \E key \in Keys :
           /\ key \in {Key("Down"), Char(106)} => cur_pos.row < MaxCursorRow
           /\ KeyEvent(key)
    /\ UNCHANGED committed_pattern

CommandModeKey ==
    /\ mode = "Command"
    /\ \E key \in Keys :
           /\ (key.kind = "Char" /\ key # Char(10))
                  => Len(command_buffer) < MaxBuffer
           /\ KeyEvent(key)
    /\ UNCHANGED committed_pattern

NextViewer == NormalModeKey \/ CommandModeKey

SpecViewer == InitViewer /\ [][NextViewer]_vars

(***************************************************************************)
(* The viewer with the history of the committed pattern, for the keys of   *)
(* searching: / a b Enter Space Esc Backspace, Down, PageDown, Home and    *)
(* Ctrl-c                                                                  *)
(***************************************************************************)
RepeatKeys ==
    {Char(c) : c \in {47, 97, 98, 10, 32}}
        \cup {Key(k) : k \in {"Esc", "Backspace", "Down", "PageDown", "Home"}}
        \cup {Ctrl(99)}

\* Enter in Command mode with more than "/" in the buffer commits the text
\* after '/'
last_committed(v, key, before) ==
    IF v.mode = "Command" /\ key = Char(10) /\ Len(v.command_buffer) > 1
    THEN Tail(v.command_buffer)
    ELSE before

RepeatKey ==
    \E key \in RepeatKeys :
        /\ key = Key("Down") => cur_pos.row < MaxCursorRow
        /\ (mode = "Command" /\ key.kind = "Char" /\ key # Char(10))
               => Len(command_buffer) < MaxBuffer
        /\ KeyEvent(key)
        /\ committed_pattern' = last_committed(VS, key, committed_pattern)

SpecRepeat == InitViewer /\ [][RepeatKey]_vars

(***************************************************************************)
(* Properties                                                              *)
(***************************************************************************)
\* the viewport part of a state or of an operation's return value
Viewport(s) == [offsets |-> s.offsets, cur_pos |-> s.cur_pos]

RowOffsetInBounds(s) ==
    /\ 0 <= s.offsets.row
    /\ s.offsets.row <= Max(0, Len(s.rows) - displayable_data_rows)

CursorRowInBounds(s) ==
    /\ 0 <= s.cur_pos.row
    /\ s.cur_pos.row <= min(displayable_data_rows, Len(s.rows))

ColumnsInBounds(s) ==
    /\ 0 <= s.offsets.col
    /\ s.offsets.col < Len(columns)
    /\ 0 <= s.cur_pos.col
    /\ s.cur_pos.col < Len(columns) - s.offsets.col

\* C1: in every reachable state the row offset lies between 0 and
\* max(0, len(rows) - displayableDataRows).
C1_RowOffsetInBounds == RowOffsetInBounds(TS)

\* the window has been scrolled to its last position on a grid longer than
\* the window
C1_Witness ==
    /\ Len(rows) > displayable_data_rows
    /\ offsets.row = Len(rows) - displayable_data_rows
    /\ action = "Rerender"

\* C2: in every reachable state the cursor row lies between 0 and
\* min(displayableDataRows, len(rows)), so a cursor off the header is on an
\* existing data row.
C2_CursorRowInBounds ==
    /\ CursorRowInBounds(TS)
    /\ cur_pos.row >= 1 => offsets.row + cur_pos.row - 1 < Len(rows)

\* C3: in every reachable state 0 <= colOffset < C and
\* 0 <= cursorCol < C - colOffset, so colOffset + cursorCol is a column index.
C3_ColumnsInBounds ==
    /\ ColumnsInBounds(TS)
    /\ current_column(TS) \in 0..(Len(header) - 1)

\* the window has been scrolled right and the cursor is on its last column
C3_Witness ==
    /\ offsets.col > 0
    /\ cur_pos.col > 0
    /\ current_column(TS) = Len(columns) - 1

\* C4: no operation fails in any reachable state: no index outside the grid,
\* no unsigned subtraction below zero.
C4_NoOperationFails == ~panicked

\* the state an operation leaves, to apply a further operation to
After(r) == [rows |-> r.rows, cur_pos |-> r.cur_pos, offsets |-> r.offsets]

\* C5: from every reachable state, moveHome, moveEnd, moveStartOfLine and
\* moveEndOfLine applied twice leave the same viewport as applied once.
C5_Idempotence ==
    /\ Viewport(move_home(After(move_home(TS)))) = Viewport(move_home(TS))
    /\ Viewport(move_end(After(move_end(TS)))) = Viewport(move_end(TS))
    /\ Viewport(move_start_of_line(After(move_start_of_line(TS))))
           = Viewport(move_start_of_line(TS))
    /\ Viewport(move_end_of_line(After(move_end_of_line(TS))))
           = Viewport(move_end_of_line(TS))

\* a state left by moveEnd and moveEndOfLine with both windows scrolled, in
\* which both are applied once more
C5_Witness ==
    /\ offsets.row > 0
    /\ offsets.col > 0
    /\ action = "Rerender"
    /\ Viewport(move_end(TS)) = Viewport(TS)
    /\ Viewport(move_end_of_line(TS)) = Viewport(TS)
    /\ Viewport(move_home(TS)) # Viewport(TS)
    /\ Viewport(move_start_of_line(TS)) # Viewport(TS)

\* C6: on a grid without data rows every vertical move leaves cursorRow and
\* rowOffset unchanged, both 0, from any reachable state.
C6_EmptyGridVerticalNoOp ==
    Len(rows) = 0 =>
        /\ cur_pos.row = 0
        /\ offsets.row = 0
        /\ \A r \in {move_down(TS), move_up(TS), move_page_down(TS),
                     move_page_up(TS), move_home(TS), move_end(TS)} :
               /\ r.cur_pos.row = cur_pos.row
               /\ r.offsets.row = offsets.row

\* C7: moveDown in every reachable state: cursor at the bottom of the window
\* (cursorRow = min(displayableDataRows, len(rows))) and last row not visible
\* -> rowOffset + 1, cursorRow unchanged, Rerender; at the bottom and last
\* row visible -> state unchanged, None; otherwise cursorRow + 1, rowOffset
\* unchanged, MoveCursor.
C7_MoveDownThreeWay ==
    LET r == move_down(TS)
        at_bottom == cur_pos.row = min(terminal_size.y - 1, Len(rows))
        last_visible == offsets.row + (terminal_size.y - 1) >= Len(rows)
    IN  /\ ~r.panic
        /\ r.rows = rows
        /\ r.offsets.col = offsets.col /\ r.cur_pos.col = cur_pos.col
        /\ (at_bottom /\ ~last_visible) =>
               /\ r.offsets.row = offsets.row + 1
               /\ r.cur_pos.row = cur_pos.row
               /\ r.action = "Rerender"
        /\ (at_bottom /\ last_visible) =>
               /\ Viewport(r) = Viewport(TS)
               /\ r.action = "None"
        /\ ~at_bottom =>
               /\ r.cur_pos.row = cur_pos.row + 1
               /\ r.offsets.row = offsets.row
               /\ r.action = "MoveCursor"

\* moveDown has returned None on the last row of a grid whose rows exactly
\* fill one window
C7_Witness ==
    /\ Len(rows) = displayable_data_rows
    /\ cur_pos.row = Len(rows)
    /\ action = "None"
    /\ move_down(TS).action = "None"

\* C8: after any sequence of ascending and descending calls, ascending(0)
\* restores the rows to their load order.
C8_SortRoundTrip ==
    /\ ~ascending(TS, 0).panic
    /\ ascending(TS, 0).rows = loaded_rows

\* the rows are in an order that a sort by a data column produced: neither
\* the load order nor its reverse
C8_Witness ==
    /\ Len(rows) >= 3
    /\ rows # loaded_rows
    /\ rows # sort_by(loaded_rows, 0, TRUE)
    /\ action = "Rerender"

\* the absolute current row of the claims: rowOffset + cursorRow - 1
AbsoluteRow(s) == s.offsets.row + s.cur_pos.row - 1

\* the rows whose cell in the current absolute column contains the pattern
Matches(pattern) ==
    {m \in 0..(Len(rows) - 1) :
        contains(rows[m + 1][current_column(TS) + 1], pattern)}

\* row j is scanned before row m in the wrap-around order that starts right
\* after the current row
ScannedBefore(j, m) ==
    LET cur == AbsoluteRow(TS)
    IN  \/ (j > cur /\ m <= cur)
        \/ ((j > cur) = (m > cur) /\ j < m)

\* C9: when some row matches, search leaves the cursor on the first match in
\* wrap-around order (rows after the current row, then row 0 up to the
\* current row), with the viewport invariants restored.
C9_SearchFindsFirstMatch ==
    \A pattern \in Patterns :
        Matches(pattern) # {} =>
            LET r == search(TS, pattern)
                first == CHOOSE m \in Matches(pattern) :
                             \A j \in Matches(pattern) : ~ScannedBefore(j, m)
            IN  /\ ~r.panic
                /\ AbsoluteRow(r) = first
                /\ r.cur_pos.row >= 1
                /\ RowOffsetInBounds(r)
                /\ CursorRowInBounds(r)
                /\ ColumnsInBounds(r)

\* the cursor is on a data row and a pattern matches only rows before it:
\* the scan has to wrap around
C9_Witness ==
    /\ cur_pos.row >= 1
    /\ offsets.row > 0
    /\ \E pattern \in Patterns :
           /\ Matches(pattern) # {}
           /\ \A m \in Matches(pattern) : m < AbsoluteRow(TS)
           /\ AbsoluteRow(search(TS, pattern)) < AbsoluteRow(TS)

\* C10: when no row matches, search leaves the offsets, the cursor and the
\* row order unchanged and completes without error.
C10_SearchNoMatchUnchanged ==
    \A pattern \in Patterns :
        Matches(pattern) = {} =>
            LET r == search(TS, pattern)
            IN  /\ ~r.panic
                /\ After(r) = TS

\* the state right after TableState::new
Start == [rows |-> loaded_rows,
          cur_pos |-> [col |-> 0, row |-> 0],
          offsets |-> [col |-> 0, row |-> 0]]

RECURSIVE DownTimes(_, _)
\* the state after k consecutive move_down calls from s
DownTimes(s, k) ==
    IF k = 0 THEN s ELSE After(move_down(DownTimes(s, k - 1)))

RECURSIVE RightTimes(_, _)
\* the state after k consecutive move_right calls from s
RightTimes(s, k) ==
    IF k = 0 THEN s ELSE After(move_right(RightTimes(s, k - 1)))

\* C11 as stated: on the fixture the fourth consecutive moveDown returns
\* Rerender and leaves rowOffset = 1, cursorRow = 3, and the fifth
\* consecutive moveDown returns None and changes nothing.
C11_FifthMoveDownNoOp ==
    LET r4 == move_down(DownTimes(Start, 3))
        r5 == move_down(After(r4))
    IN  /\ r4.action = "Rerender"
        /\ r4.offsets.row = 1 /\ r4.cur_pos.row = 3
        /\ r5.action = "None"
        /\ After(r5) = After(r4)

\* C11 amended: on the fixture, from the initial state (rows 1-3, cursor on
\* the header) the fourth consecutive moveDown returns Rerender and leaves
\* rowOffset = 1, cursorRow = 3; the fifth returns Rerender and leaves
\* rowOffset = 2, cursorRow = 3 (rows 3-5); the sixth returns None and
\* changes nothing.
C11_SixthMoveDownNoOp ==
    LET s3 == DownTimes(Start, 3)
        r4 == move_down(s3)
        r5 == move_down(After(r4))
        r6 == move_down(After(r5))
    IN  /\ Start.offsets.row = 0 /\ Start.cur_pos.row = 0
        /\ s3.offsets.row = 0 /\ s3.cur_pos.row = 3
        /\ r4.action = "Rerender"
        /\ r4.offsets.row = 1 /\ r4.cur_pos.row = 3
        /\ r5.action = "Rerender"
        /\ r5.offsets.row = 2 /\ r5.cur_pos.row = 3
        /\ r6.action = "None"
        /\ After(r6) = After(r5)

\* the state the sixth consecutive moveDown leaves: rows 3-5, cursor on the
\* bottom line, nothing to redraw
C11_Witness ==
    /\ TS = DownTimes(Start, 6)
    /\ offsets.row = 2 /\ cur_pos.row = 3
    /\ action = "None"

\* C12: on the fixture (column widths 3, 4, 5, 4; terminal 9 wide) three
\* consecutive moveRight calls from column 0 move the current column to 1,
\* 2, 3 with colOffset 0, 1, 2; the fourth returns None and changes nothing.
C12_MoveRightScenario ==
    LET r1 == move_right(Start)
        r2 == move_right(After(r1))
        r3 == move_right(After(r2))
        r4 == move_right(After(r3))
    IN  /\ [i \in 1..Len(columns) |-> columns[i].width] = <<3, 4, 5, 4>>
        /\ current_column(r1) = 1 /\ r1.offsets.col = 0
        /\ current_column(r2) = 2 /\ r2.offsets.col = 1
        /\ current_column(r3) = 3 /\ r3.offsets.col = 2
        /\ r4.action = "None"
        /\ After(r4) = After(r3)

\* the state the fourth consecutive moveRight leaves: first visible column
\* bb, cursor on c, nothing to redraw
C12_Witness ==
    /\ TS = RightTimes(Start, 4)
    /\ offsets.col = 2 /\ cur_pos.col = 1
    /\ action = "None"

\* what the ten navigation operations return in state s
NavResults(s) ==
    {move_down(s), move_up(s), move_page_down(s), move_page_up(s),
     move_home(s), move_end(s), move_right(s), move_left(s),
     move_start_of_line(s), move_end_of_line(s)}

\* C13: for every navigation operation in every reachable state: result
\* None -> offsets and cursor unchanged; result MoveCursor -> offsets and row
\* order unchanged; so a changed rowOffset or colOffset comes with Rerender.
C13_RedrawSignalSufficient ==
    \A r \in NavResults(TS) :
        /\ r.action \in {"None", "MoveCursor", "Rerender"}
        /\ r.action = "None" => Viewport(r) = Viewport(TS)
        /\ r.action = "MoveCursor" => (r.offsets = offsets /\ r.rows = rows)
        /\ r.offsets # offsets => r.action = "Rerender"

\* an operation has moved the cursor only, in a window scrolled both ways,
\* and another operation is a no-op there
C13_Witness ==
    /\ action = "MoveCursor"
    /\ offsets.row > 0
    /\ offsets.col > 0
    /\ \E r \in NavResults(TS) : r.action = "None"

\* C14: moveUp in every reachable state: cursorRow >= 2 -> cursor up one
\* line, MoveCursor; cursorRow = 1 and rowOffset > 0 -> window up one row,
\* cursor stays, Rerender; cursorRow = 1 and rowOffset = 0 -> cursor to the
\* header, MoveCursor; cursorRow = 0 -> unchanged, None.
C14_MoveUpCases ==
    LET r == move_up(TS)
    IN  /\ ~r.panic
        /\ r.rows = rows
        /\ r.offsets.col = offsets.col /\ r.cur_pos.col = cur_pos.col
        /\ cur_pos.row >= 2 =>
               /\ r.cur_pos.row = cur_pos.row - 1
               /\ r.offsets.row = offsets.row
               /\ r.action = "MoveCursor"
        /\ (cur_pos.row = 1 /\ offsets.row > 0) =>
               /\ r.offsets.row = offsets.row - 1
               /\ r.cur_pos.row = 1
               /\ r.action = "Rerender"
        /\ (cur_pos.row = 1 /\ offsets.row = 0) =>
               /\ r.cur_pos.row = 0
               /\ r.offsets.row = 0
               /\ r.action = "MoveCursor"
        /\ cur_pos.row = 0 =>
               /\ Viewport(r) = Viewport(TS)
               /\ r.action = "None"

\* the cursor is on the first data line of a window that is neither at the
\* top nor at the end of the grid, after a full redraw
C14_Witness ==
    /\ cur_pos.row = 1
    /\ offsets.row > 0
    /\ offsets.row + displayable_data_rows < Len(rows)
    /\ action = "Rerender"
    /\ move_up(TS).offsets.row = offsets.row - 1

\* C15: movePageDown with the cursor off the header and the last row not
\* visible sets rowOffset to min(rowOffset + displayable - 1, len(rows) -
\* displayable); movePageUp with rowOffset > 0 sets rowOffset to
\* max(rowOffset - (displayable - 1), 0); both leave cursorRow and the column
\* state unchanged and return Rerender.
C15_PagingStep ==
    LET d == terminal_size.y - 1
        down == move_page_down(TS)
        up == move_page_up(TS)
    IN  /\ (cur_pos.row # 0 /\ offsets.row + d < Len(rows)) =>
               /\ down.offsets.row = min(offsets.row + d - 1, Len(rows) - d)
               /\ down.cur_pos = cur_pos
               /\ down.offsets.col = offsets.col
               /\ down.action = "Rerender"
        /\ offsets.row > 0 =>
               /\ up.offsets.row = Max(offsets.row - (d - 1), 0)
               /\ up.cur_pos = cur_pos
               /\ up.offsets.col = offsets.col
               /\ up.action = "Rerender"

\* C16: on a grid with at least one data row moveEnd leaves rowOffset =
\* max(0, len(rows) - displayable) and the cursor on the last data row;
\* moveHome leaves rowOffset = 0 and cursorRow = 0; both return Rerender and
\* leave colOffset and cursorCol unchanged.
C16_MoveEndMoveHome ==
    LET e == move_end(TS)
        h == move_home(TS)
    IN  /\ Len(rows) >= 1 =>
               /\ e.offsets.row = Max(0, Len(rows) - (terminal_size.y - 1))
               /\ AbsoluteRow(e) = Len(rows) - 1
        /\ h.offsets.row = 0 /\ h.cur_pos.row = 0
        /\ e.action = "Rerender" /\ h.action = "Rerender"
        /\ e.offsets.col = offsets.col /\ e.cur_pos.col = cur_pos.col
        /\ h.offsets.col = offsets.col /\ h.cur_pos.col = cur_pos.col
        /\ e.rows = rows /\ h.rows = rows

\* moveEnd has put the cursor on the last row of a grid shorter than the
\* window
C16_Witness ==
    /\ Len(rows) >= 1
    /\ Len(rows) < displayable_data_rows
    /\ cur_pos.row = Len(rows)
    /\ action = "Rerender"
    /\ Viewport(move_end(TS)) = Viewport(TS)

\* right edge of column c minus the start offset of column i (0-based)
EdgeFrom(c, i) == columns[c + 1].index + columns[c + 1].width
                      - columns[i + 1].index

\* C17: moveRight off the last column moves the current column by exactly 1;
\* it returns MoveCursor with colOffset unchanged iff the new column's right
\* edge is at most startOffset[colOffset] + terminalWidth; otherwise it
\* returns Rerender and colOffset becomes the smallest index >= the old one
\* from which the new column fits.
C17_MoveRightFit ==
    current_column(TS) # Len(columns) - 1 =>
        LET r == move_right(TS)
            c == current_column(TS) + 1
            fits_now == EdgeFrom(c, offsets.col) <= terminal_size.x
        IN  /\ current_column(r) = c
            /\ r.offsets.row = offsets.row /\ r.cur_pos.row = cur_pos.row
            /\ (r.action = "MoveCursor" /\ r.offsets.col = offsets.col)
                   <=> fits_now
            /\ ~fits_now =>
                   /\ r.action = "Rerender"
                   /\ r.offsets.col >= offsets.col
                   /\ EdgeFrom(c, r.offsets.col) <= terminal_size.x
                   /\ \A i \in offsets.col..(r.offsets.col - 1) :
                          EdgeFrom(c, i) > terminal_size.x

\* the window has shifted right with the cursor not on its first column
C17_Witness ==
    /\ action = "Rerender"
    /\ offsets.col > 0
    /\ cur_pos.col > 0
    /\ EdgeFrom(current_column(TS), offsets.col - 1) > terminal_size.x

\* C18: moveEndOfLine sets colOffset to the smallest i with the last
\* column's right edge minus startOffset[i] at most terminalWidth, puts the
\* cursor on the last column, leaves rowOffset and cursorRow unchanged and
\* returns Rerender.
C18_MoveEndOfLine ==
    LET r == move_end_of_line(TS)
        last == Len(columns) - 1
    IN  /\ EdgeFrom(last, r.offsets.col) <= terminal_size.x
        /\ \A i \in 0..(r.offsets.col - 1) :
               EdgeFrom(last, i) > terminal_size.x
        /\ current_column(r) = last
        /\ r.offsets.row = offsets.row /\ r.cur_pos.row = cur_pos.row
        /\ r.rows = rows
        /\ r.action = "Rerender"

\* moveEndOfLine has scrolled the window right, with the cursor on a data row
C18_Witness ==
    /\ action = "Rerender"
    /\ cur_pos.row > 0
    /\ offsets.col > 0
    /\ current_column(TS) = Len(columns) - 1
    /\ Viewport(move_end_of_line(TS)) = Viewport(TS)
    /\ Viewport(move_start_of_line(TS)) # Viewport(TS)

\* the index of row x in the current row order
Position(x) == CHOOSE i \in 1..Len(rows) : rows[i] = x

\* r is what a sort by column col leaves: only the row order changed, the
\* rows are a permutation ordered by the key, equal keys in their old order
SortOnlyReorders(r, col, desc) ==
    /\ ~r.panic
    /\ r.action = "Rerender"
    /\ Viewport(r) = Viewport(TS)
    /\ columns = new_columns(header, r.rows, terminal_size)
    /\ Len(r.rows) = Len(rows)
    /\ \A i \in 1..Len(rows) : \E j \in 1..Len(rows) : r.rows[j] = rows[i]
    /\ \A i, j \in 1..Len(rows) :
           i < j =>
               LET c == comp(col, r.rows[i][col + 1], r.rows[j][col + 1])
               IN  /\ r.rows[i] # r.rows[j]
                   /\ IF desc THEN c >= 0 ELSE c <= 0
                   /\ c = 0 => Position(r.rows[i]) < Position(r.rows[j])

\* C19: ascending(col) and descending(col) change only the order of the data
\* rows: offsets, cursor and column layout stay, the rows afterwards are a
\* permutation of the rows before, ordered by the key in column col, rows of
\* equal key in their previous relative order; the result is Rerender.
C19_SortOnlyReorders ==
    /\ columns = new_columns(header, loaded_rows, terminal_size)
    /\ command_buffer = <<>>
    /\ \A col \in 0..(Len(header) - 1) :
           /\ SortOnlyReorders(ascending(TS, col), col, FALSE)
           /\ SortOnlyReorders(descending(TS, col), col, TRUE)

\* the rows have been sorted by a data column in which two rows have the same
\* key, with the cursor on a data row of a scrolled window
C19_Witness ==
    /\ action = "Rerender"
    /\ rows # loaded_rows
    /\ cur_pos.row > 0
    /\ offsets.row > 0
    /\ \E col \in 1..(Len(header) - 1) :
           /\ rows = sort_by(rows, col, TRUE)
           /\ \E i, j \in 1..Len(rows) :
                  i < j /\ rows[i][col + 1] = rows[j][col + 1]


\* C20: the command-entry protocol of the driver.  '/' in Normal mode
\* switches to Command mode with the buffer exactly "/"; in Command mode
\* every character key other than Enter appends to the buffer and stays in
\* Command mode; Backspace removes the last character and returns to Normal
\* mode exactly when the buffer becomes empty; Escape returns to Normal mode
\* with an empty buffer and Rerender; Enter returns to Normal mode, leaves
\* the viewport alone when the buffer is only "/" and otherwise is the
\* search for the text after '/'.  In Command mode the buffer is never
\* empty and starts with '/'.
SameViewport(r) ==
    /\ r.rows = rows /\ r.cur_pos = cur_pos /\ r.offsets = offsets
    /\ ~r.panic

C20_CommandEntryProtocol ==
    /\ mode = "Normal" =>
           LET r == key_event(VS, Char(47))
           IN  /\ r.mode = "Command"
               /\ r.command_buffer = <<47>>
               /\ r.action = "Command"
               /\ SameViewport(r)
    /\ mode = "Command" =>
           /\ command_buffer # <<>>
           /\ command_buffer[1] = 47
           /\ \A c \in TypedChars \ {10} :
                  LET r == key_event(VS, Char(c))
                  IN  /\ r.command_buffer = Append(command_buffer, c)
                      /\ r.mode = "Command"
                      /\ SameViewport(r)
           /\ LET r == key_event(VS, Key("Backspace"))
              IN  /\ r.command_buffer
                         = SubSeq(command_buffer, 1, Len(command_buffer) - 1)
                  /\ r.mode = IF r.command_buffer = <<>> THEN "Normal"
                              ELSE "Command"
                  /\ SameViewport(r)
           /\ LET r == key_event(VS, Key("Esc"))
              IN  /\ r.mode = "Normal"
                  /\ r.command_buffer = <<>>
                  /\ r.action = "Rerender"
                  /\ SameViewport(r)
           /\ LET r == key_event(VS, Char(10))
                  q == search(TS, Tail(command_buffer))
              IN  /\ r.mode = "Normal"
                  /\ IF command_buffer = <<47>>
                     THEN SameViewport(r)
                     ELSE /\ r.rows = q.rows
                          /\ r.cur_pos = q.cur_pos
                          /\ r.offsets = q.offsets
                          /\ r.action = q.action
                          /\ r.panic = q.panic

\* in Command mode with a pattern typed, where Enter moves the viewport to
\* a match
C20_Witness ==
    /\ mode = "Command"
    /\ Len(command_buffer) > 1
    /\ ~panicked
    /\ LET r == key_event(VS, Char(10))
       IN  ~r.panic /\ r.action = "Rerender" /\ r.offsets # offsets

\* C21: repeat-last-search.  Once a non-empty pattern p has been committed
\* with Enter, Space in Normal mode at any later time, whatever keys were
\* pressed in between, re-executes search(p) from the current cursor
\* position and leaves the mode Normal.
C21_RepeatLastSearch ==
    (mode = "Normal" /\ committed_pattern # <<>>) =>
        LET r == key_event(VS, Char(32))
            q == search(TS, committed_pattern)
        IN  /\ r.mode = "Normal"
            /\ r.rows = q.rows
            /\ r.cur_pos = q.cur_pos
            /\ r.offsets = q.offsets
            /\ r.action = q.action
            /\ r.panic = q.panic

\* C22 as stated: the command buffer is cleared on every exit from Command
\* mode, so that it is empty in every state whose mode is Normal.
C22_BufferEmptyInNormalMode == mode = "Normal" => command_buffer = <<>>

\* C22 as amended: Escape and a Backspace that falls back to Normal mode
\* leave the buffer empty, Enter leaves the buffer as it was typed; in
\* every state whose mode is Normal the buffer is empty or starts with '/'.
C22_BufferAfterCommandMode ==
    /\ mode = "Normal" => (command_buffer = <<>> \/ command_buffer[1] = 47)
    /\ mode = "Command" =>
           /\ key_event(VS, Key("Esc")).command_buffer = <<>>
           /\ LET r == key_event(VS, Key("Backspace"))
              IN  r.mode = "Normal" => r.command_buffer = <<>>
           /\ LET r == key_event(VS, Char(10))
              IN  r.mode = "Normal" /\ r.command_buffer = command_buffer

\* Normal mode after a commit: the committed pattern is still in the buffer
C22_Witness ==
    mode = "Normal" /\ Len(command_buffer) > 1 /\ action = "Rerender"

\* C23: the quit protocol of the driver loop.  Reset is produced exactly by
\* q, Ctrl-q, Ctrl-x, Ctrl-c in Normal mode and by Ctrl-q, Ctrl-x, Ctrl-c in
\* Command mode, where a plain 'q' is appended to the pattern; Reset is
\* rendered by clearing the screen, and after a key produced Reset no
\* further key event is processed.
QuitKeys ==
    IF mode = "Normal" THEN {Char(113), Ctrl(113), Ctrl(120), Ctrl(99)}
    ELSE {Ctrl(113), Ctrl(120), Ctrl(99)}

ResetExactlyByQuitKeys ==
    /\ \A key \in Keys :
           LET r == key_event(VS, key)
           IN  /\ r.action = "Reset" <=> key \in QuitKeys
               /\ r.action = "Reset" =>
                      ~r.panic /\ render(r.action) = "reset_window"
    /\ mode = "Command" =>
           LET r == key_event(VS, Char(113))
           IN  /\ r.command_buffer = Append(command_buffer, 113)
               /\ r.mode = "Command"

C23_QuitProtocol ==
    /\ [](ResetExactlyByQuitKeys)
    /\ [][action # "Reset"]_vars

\* the loop left from Command mode by a quit key
C23_Witness ==
    action = "Reset" /\ mode = "Command" /\ Len(command_buffer) > 1

\* C24: from every reachable state of a grid with at least one data row,
\* repeated moveDown reaches after finitely many steps (at most one per
\* data row and window line) a state in which moveDown returns None and the
\* cursor is on the last data row.
C24_MoveDownTerminates ==
    Len(rows) >= 1 =>
        \E k \in 0..(Len(rows) + displayable_data_rows) :
            LET s == DownTimes(TS, k)
            IN  /\ move_down(s).action = "None"
                /\ current_row(s) = Len(rows)

\* C25: in every reachable state the column under the cursor is completely
\* inside the window: it starts at or after the first displayed column and
\* its right edge is at most the terminal width away from that column's
\* start.
C25_CursorColumnInWindow ==
    LET cur == current_column(TS)
    IN  /\ cur \in 0..(Len(columns) - 1)
        /\ columns[cur + 1].index >= columns[offsets.col + 1].index
        /\ columns[cur + 1].index + columns[cur + 1].width
               <= columns[offsets.col + 1].index + terminal_size.x

\* the cursor is on a column that only fits after the window has shifted,
\* and not on the first displayed column
C25_Witness ==
    /\ offsets.col > 0
    /\ cur_pos.col > 0
    /\ EdgeFrom(current_column(TS), 0) > terminal_size.x
    /\ action = "MoveCursor"

\* C26: in every reachable state with the cursor on the last column,
\* colOffset is the smallest column index from which the last column's
\* right edge fits in the window; pressing moveRight until it returns None
\* ends in the same (colOffset, cursorCol) as a single moveEndOfLine.
C26_LastColumnPathIndependent ==
    LET last == Len(columns) - 1
        s == RightTimes(TS, Len(columns))
        e == move_end_of_line(TS)
    IN  /\ current_column(TS) = last =>
               /\ EdgeFrom(last, offsets.col) <= terminal_size.x
               /\ \A i \in 0..(offsets.col - 1) :
                      EdgeFrom(last, i) > terminal_size.x
        /\ move_right(s).action = "None"
        /\ s.offsets.col = e.offsets.col
        /\ s.cur_pos.col = e.cur_pos.col

\* the last column was reached by moveRight after a moveLeft had scrolled
\* the window back, with the window shifted again
C26_Witness ==
    /\ current_column(TS) = Len(columns) - 1
    /\ offsets.col > 0
    /\ cur_pos.col > 0
    /\ action = "Rerender"
    /\ move_end_of_line(TS).offsets = offsets
====
